---- MODULE Spec2Model ----
(***************************************************************************)
(* job-bot: the asynchronous job pipeline (app/tasks.py), the dual-path    *)
(* extraction coordinator (services/job_processor_service.py) and the      *)
(* task lifecycle kept in the Celery result backend (app/celery_app.py).   *)
(*                                                                         *)
(* Text is modelled as a sequence of word tokens; Python's substring test  *)
(* `pattern in text` is the test that the pattern's tokens occur           *)
(* contiguously in the text's tokens.                                      *)
(***************************************************************************)
EXTENDS Integers, Sequences, FiniteSets, TLC

VARIABLES req, scn, catalog, backend, pc, calls, hist, normalized, attempt, last_error,
          raw_scraped, addreq, batch, cancelreq, tail, notion, race

\* The state of the worker side: the queued tasks and the result backend.
taskvars == <<req, scn, backend, pc, calls, hist, normalized, attempt, last_error,
              raw_scraped>>

\* The pipeline past the evaluation call, one call of save_job_to_notion, and
\* the executors working on tasks for one URL.
sidevars == <<tail, notion, race>>

\* The state of the HTTP side: the request add_job is serving, the batch the
\* client has posted, and the answer to the last cancel request.
apivars == <<addreq, batch, cancelreq, sidevars>>

vars == <<taskvars, catalog, apivars>>

(***************************************************************************)
(* Values                                                                  *)
(***************************************************************************)
\* Python's None, where a string is expected.
NoneV == "None"

\* Python truthiness of an optional string: None and "" are falsy.
Truthy(s) == s # NoneV /\ s # ""

\* The task ids of the model and the URLs they are submitted with.
Tasks == {"t1"}
Urls == {"https://jobs.example/1"}

(***************************************************************************)
(* Text: tokens, lower(), substring                                        *)
(***************************************************************************)
\* str.lower() on one token: the capitalised tokens of the messages below.
LowerTok(w) ==
    CASE w = "Crawl4AI" -> "crawl4ai"
      [] w = "Crawl" -> "crawl"
      [] w = "Failed" -> "failed"
      [] w = "ACS-GOTO" -> "acs-goto"
      [] w = "Page.goto" -> "page.goto"
      [] w = "Timeout" -> "timeout"
      [] w = "No" -> "no"
      [] w = "LLM" -> "llm"
      [] w = "Expecting" -> "expecting"
      [] w = "Unexpected" -> "unexpected"
      [] w = "Normalized" -> "normalized"
      [] w = "Missing" -> "missing"
      [] w = "Got" -> "got"
      [] w = "Access" -> "access"
      [] w = "Incomplete" -> "incomplete"
      [] w = "Page" -> "page"
      [] w = "Position" -> "position"
      [] w = "Job" -> "job"
      [] w = "Jakarta" -> "jakarta"
      [] w = "Indonesia" -> "indonesia"
      [] w = "Austin" -> "austin"
      [] w = "USA" -> "usa"
      [] OTHER -> w

Lower(text) == [i \in 1..Len(text) |-> LowerTok(text[i])]

\* `pattern in text`
Contains(text, pattern) ==
    \E i \in 0..(Len(text) - Len(pattern)) :
        \A j \in 1..Len(pattern) : text[i + j] = pattern[j]

(***************************************************************************)
(* Exceptions: a class and str(e)                                          *)
(***************************************************************************)
NoExc == [cls |-> NoneV, msg |-> <<>>]

Exc(cls, msg) == [cls |-> cls, msg |-> msg]

\* type(e).__name__ : the two JobUnavailableError classes share their name.
TypeName(e) ==
    CASE e.cls = "crawl4ai_service.JobUnavailableError" -> "JobUnavailableError"
      [] e.cls = "playwright_scraper_service.JobUnavailableError" -> "JobUnavailableError"
      [] e.cls = "crawl4ai_service.VisaRestrictedError" -> "VisaRestrictedError"
      [] OTHER -> e.cls


(***************************************************************************)
(* Job records.  A text field is a token sequence; None, a missing key and *)
(* "" are all the empty sequence (each is falsy where the code tests it).  *)
(***************************************************************************)
NoRec ==
    [url |-> NoneV, job_title |-> <<>>, company_name |-> <<>>,
     job_description |-> <<>>, location |-> <<>>, visa_feasibility |-> NoneV,
     extraction_method |-> NoneV]

\* infer_visa_feasibility: the heuristic used when the LLM gave no value.
restricted_terms ==
    { <<"no", "visa", "sponsorship">>, <<"must", "have", "work", "authorization">>,
      <<"authorized", "to", "work">>, <<"locals", "only">>,
      <<"work", "permit", "required">>, <<"no", "relocation", "support">> }

known_countries ==
    { <<"singapore">>, <<"malaysia">>, <<"australia">>, <<"usa">>, <<"uk">>, <<"canada">> }

infer_visa_feasibility(rec) ==
    LET loc == Lower(rec.location)
        desc == Lower(rec.job_description)
    IN  IF Contains(loc, <<"indonesia">>) THEN "eligible"
        ELSE IF \E term \in restricted_terms : Contains(desc, term) THEN "restricted"
        ELSE IF \E country \in known_countries : Contains(loc, country) THEN "possible"
        ELSE "unknown"

(***************************************************************************)
(* Duplicate check (services/duplicate_checker_service.py)                 *)
(***************************************************************************)
\* What the catalog lookup does on one call.
LookupOutcomes == {"missing_config", "ok", "non_200", "request_error", "other_error"}

\* Variant: the except clauses let the lookup error escape instead of absorbing it.
LookupErrorHandler_reraise(lookup) ==
    [exists |-> FALSE, exc |-> Exc("RequestError", <<"lookup", "failed">>)]

\* The two except clauses of check_if_job_exists: log, report not-a-duplicate.
LookupErrorHandler(lookup) == [exists |-> FALSE, exc |-> NoExc]

check_if_job_exists(job_url, lookup, cat) ==
    IF lookup = "missing_config" THEN [exists |-> FALSE, exc |-> NoExc]
    ELSE IF lookup = "ok" THEN [exists |-> job_url \in cat, exc |-> NoExc]
    ELSE IF lookup = "non_200" THEN [exists |-> FALSE, exc |-> NoExc]
    ELSE LookupErrorHandler(lookup)

(***************************************************************************)
(* Fast path (services/crawl4ai_service.py)                                *)
(***************************************************************************)
\* detect_job_unavailable on the crawled markdown, by the kind of page.
detect_job_unavailable(page) ==
    CASE page = "short" ->
            [unavailable |-> TRUE, reason |-> <<"Page", "content", "too", "short", "or", "empty">>]
      [] page = "filled" ->
            [unavailable |-> TRUE, reason |-> <<"Position", "already", "filled">>]
      [] OTHER -> [unavailable |-> FALSE, reason |-> <<>>]

\* The dict the extraction LLM may return.
ItemDicts ==
    [job_available : BOOLEAN,
     job_title : {<<>>, <<"Engineer">>},
     company_name : {<<>>, <<"Acme">>},
     job_description : {<<>>, <<"build", "apis">>, <<"no", "visa", "sponsorship">>},
     location : {<<>>, <<"Jakarta", "Indonesia">>, <<"Austin", "USA">>},
     visa_feasibility : {NoneV, "possible", "restricted"}]

DefaultItem ==
    [job_available |-> TRUE, job_title |-> <<"Engineer">>, company_name |-> <<"Acme">>,
     job_description |-> <<"build", "apis">>, location |-> <<"Austin", "USA">>,
     visa_feasibility |-> "possible"]

CrawlInput(arun, success, error_message, page, extracted, item) ==
    [arun |-> arun, success |-> success, error_message |-> error_message,
     page |-> page, extracted |-> extracted, item |-> item]

\* Exceptions crawler.arun itself may raise.
ArunErrors ==
    { Exc("TimeoutError", <<>>),
      Exc("ConnectionError", <<"connection", "refused">>),
      Exc("MemoryError", <<>>) }

\* result.error_message of a crawl that did not succeed.
CrawlErrorMessages ==
    { <<"Failed", "on", "navigating", "ACS-GOTO", ":", "Page.goto", ":",
        "Timeout", "60000ms", "exceeded">>,
      <<"Access", "denied">> }

\* What one call of the crawler may produce.
CrawlInputs ==
    {CrawlInput(e, TRUE, <<>>, "job", "dict", DefaultItem) : e \in ArunErrors}
    \cup {CrawlInput(NoExc, FALSE, m, "job", "dict", DefaultItem) : m \in CrawlErrorMessages}
    \cup {CrawlInput(NoExc, TRUE, <<>>, p, "dict", DefaultItem) : p \in {"short", "filled"}}
    \cup {CrawlInput(NoExc, TRUE, <<>>, "job", x, DefaultItem) :
            x \in {"none", "bad_json", "empty_list", "scalar", "list_of_str"}}
    \cup {CrawlInput(NoExc, TRUE, <<>>, "job", x, d) :
            x \in {"dict", "list_of_dict"}, d \in ItemDicts}

Raised(e) == [ok |-> FALSE, rec |-> NoRec, exc |-> e]
Returned(r) == [ok |-> TRUE, rec |-> r, exc |-> NoExc]

\* except Exception at the end of crawl4ai_extract: every other error is re-raised
\* as a plain Exception whose message is prefixed.
Crawl4aiWrap(e) == Exc("Exception", <<"Crawl4AI", "extraction", "failed", ":">> \o e.msg)

\* The body of crawl4ai_extract's try block.
Crawl4aiBody(url, crawl) ==
    LET verdict == detect_job_unavailable(crawl.page)
        item == crawl.item
        visa == IF Truthy(item.visa_feasibility) THEN item.visa_feasibility
                ELSE infer_visa_feasibility(
                        [NoRec EXCEPT !.location = item.location,
                                      !.job_description = item.job_description])
    IN  IF crawl.arun # NoExc THEN Raised(crawl.arun)
        ELSE IF ~crawl.success
            THEN Raised(Exc("Exception", <<"Crawl", "failed", ":">> \o crawl.error_message))
        ELSE IF verdict.unavailable
            THEN Raised(Exc("crawl4ai_service.JobUnavailableError", verdict.reason))
        ELSE IF crawl.extracted = "none"
            THEN Raised(Exc("Exception", <<"No", "content", "extracted">>))
        ELSE IF crawl.extracted = "bad_json"
            THEN Raised(Exc("JSONDecodeError",
                    <<"Expecting", "value", ":", "line", "1", "column", "1", "(char 0)">>))
        ELSE IF crawl.extracted = "empty_list"
            THEN Raised(Exc("Exception", <<"LLM", "returned", "empty", "array", ".">>))
        ELSE IF crawl.extracted = "scalar"
            THEN Raised(Exc("Exception", <<"Unexpected", "parsed", "type", ":", "<class 'int'>">>))
        ELSE IF crawl.extracted = "list_of_str"
            THEN Raised(Exc("Exception", <<"Normalized", "is", "not", "a", "dict", ":", "<class 'str'>">>))
        ELSE IF ~item.job_available
            THEN Raised(Exc("crawl4ai_service.JobUnavailableError",
                    <<"Job", "posting", "no", "longer", "available">>))
        ELSE IF item.job_title = <<>> \/ item.job_description = <<>>
            THEN Raised(Exc("Exception", <<"Missing", "required", "fields", ".", "Got", ":", "[...]">>))
        ELSE IF visa = "restricted"
            THEN Raised(Exc("crawl4ai_service.VisaRestrictedError",
                    <<"Job", "requires", "work", "authorization/visa", "sponsorship",
                      "not", "available">>))
        ELSE Returned([url |-> url, job_title |-> item.job_title,
                       company_name |-> item.company_name,
                       job_description |-> item.job_description,
                       location |-> item.location, visa_feasibility |-> visa,
                       extraction_method |-> NoneV])

\* The two business-outcome classes of crawl4ai_service.
IsBusinessOutcome(e) ==
    e.cls \in {"crawl4ai_service.JobUnavailableError", "crawl4ai_service.VisaRestrictedError"}

crawl4ai_extract(url, crawl) ==
    LET r == Crawl4aiBody(url, crawl)
    IN  IF r.ok \/ IsBusinessOutcome(r.exc) THEN r ELSE Raised(Crawl4aiWrap(r.exc))

(***************************************************************************)
(* Extraction coordinator (services/job_processor_service.py)              *)
(***************************************************************************)
\* Variant: extract_job_data ignores force_playwright.
SkipFastPath_ignored(force_playwright) == FALSE

\* if force_playwright: return await _playwright_path(url)
SkipFastPath(force_playwright) == force_playwright

fallback_patterns ==
    { <<"timeout">>, <<"timed", "out">>, <<"connection">>, <<"network">>,
      <<"incomplete", "extraction">>, <<"missing", "required", "fields">>,
      <<"no", "content", "extracted">>, <<"empty">>, <<"failed", "on", "navigating">> }

retriable_errors == {"TimeoutError", "NetworkError", "ConnectionError", "RuntimeError"}

_should_attempt_fallback(error) ==
    LET error_str == Lower(error.msg)
        error_type == TypeName(error)
    IN  IF \E pattern \in fallback_patterns : Contains(error_str, pattern) THEN TRUE
        ELSE IF error_type \in retriable_errors THEN TRUE
        ELSE FALSE

\* Variant: the except clause names VisaRestrictedError only.
CaughtAsBusinessStop_visa_only(e) == e.cls = "crawl4ai_service.VisaRestrictedError"

\* except (JobUnavailableError, VisaRestrictedError) in extract_job_data.
CaughtAsBusinessStop(e) ==
    e.cls \in {"crawl4ai_service.JobUnavailableError", "crawl4ai_service.VisaRestrictedError"}

\* Variant: a recoverable error is re-raised instead of handed to the slow path.
OnRecoverable_raise == "raise"

\* Variant: every fast-path error is handed to the slow path.
OnNonRecoverable_fallback == "fallback"

\* if should_fallback: return await _playwright_path(url)
OnRecoverable == "fallback"

\* else: raise
OnNonRecoverable == "raise"

\* The try statement of extract_job_data around the fast path: what the
\* coordinator does with the outcome of crawl4ai_extract.
\*   "return"   - the record is returned, extraction_method = crawl4ai
\*   "raise"    - exc is raised to the caller
\*   "fallback" - _playwright_path is called
FastPathDecision(r) ==
    LET incomplete == Exc("Exception",
            <<"Incomplete", "extraction", "-", "missing", "critical", "fields">>)
        e == IF r.ok THEN incomplete ELSE r.exc
    IN  IF r.ok /\ r.rec.job_title # <<>> /\ r.rec.job_description # <<>>
            THEN [kind |-> "return",
                  rec |-> [r.rec EXCEPT !.extraction_method = "crawl4ai"], exc |-> NoExc]
        ELSE IF CaughtAsBusinessStop(e)
            THEN [kind |-> "raise", rec |-> NoRec, exc |-> e]
        ELSE IF _should_attempt_fallback(e)
            THEN [kind |-> OnRecoverable, rec |-> NoRec, exc |-> e]
        ELSE [kind |-> OnNonRecoverable, rec |-> NoRec, exc |-> e]


(***************************************************************************)
(* Slow path (services/playwright_scraper_service.py,                      *)
(* services/llm_normalization_service.py, _playwright_path)                *)
(***************************************************************************)
max_retries == 3

\* What one pass of the scraper's retry loop may meet.
AttemptOutcomes ==
    {"nav_timeout", "http_404", "http_410", "http_500", "late_timeout",
     "goto_error", "text_unavailable", "ok"}

\* The page a successful scrape returns: its title (possibly empty) and text.
RawScrapes ==
    [title : {<<>>, <<"Engineer", "-", "Acme">>},
     text : {<<"responsibilities", "build", "apis">>}]

NoRaw == [title |-> <<>>, text |-> <<>>]

\* The exception one pass of the loop body ends with, if any.
AttemptError(o) ==
    CASE o = "nav_timeout" -> Exc("TimeoutError", <<"Timeout", "30000ms", "exceeded">>)
      [] o = "late_timeout" -> Exc("TimeoutError", <<"Timeout", "30000ms", "exceeded">>)
      [] o = "http_404" ->
            Exc("playwright_scraper_service.JobUnavailableError",
                <<"HTTP", "404", "-", "Page", "not", "found">>)
      [] o = "http_410" ->
            Exc("playwright_scraper_service.JobUnavailableError",
                <<"HTTP", "410", "-", "Page", "gone">>)
      [] o = "http_500" -> Exc("Exception", <<"HTTP", "500">>)
      [] o = "goto_error" -> Exc("Error", <<"net::ERR_CONNECTION_RESET">>)
      [] o = "text_unavailable" ->
            Exc("playwright_scraper_service.JobUnavailableError",
                <<"Position", "already", "filled">>)
      [] OTHER -> NoExc

\* Variant: the loop has no except JobUnavailableError clause, so an unavailable
\* posting is retried like any other error.
ScrapeStep_retry_unavailable(att, last, o) ==
    LET e == AttemptError(o)
        final == att >= max_retries - 1
    IN  IF o = "ok" THEN [kind |-> "return", last |-> last, exc |-> NoExc]
        ELSE IF final
            THEN [kind |-> "raise", last |-> e,
                  exc |-> Exc("Exception",
                        <<"Scraping", "failed", "after", "3", "attempts", ":">> \o e.msg)]
        ELSE [kind |-> "retry", last |-> e, exc |-> NoExc]

\* One pass of the for loop of playwright_scrape_job, at index `att` with
\* last_error `last`:
\*   "return" - the scrape is returned
\*   "raise"  - exc leaves playwright_scrape_job
\*   "retry"  - the loop goes on with the next index and last_error = last
ScrapeStep(att, last, o) ==
    LET e == AttemptError(o)
        final == att >= max_retries - 1
        exhausted(le) ==
            [kind |-> "raise", last |-> le,
             exc |-> Exc("Exception",
                        <<"Scraping", "failed", "after", "3", "attempts", ":">> \o le.msg)]
    IN  IF o = "ok" THEN [kind |-> "return", last |-> last, exc |-> NoExc]
        ELSE IF e.cls = "playwright_scraper_service.JobUnavailableError"
            THEN [kind |-> "raise", last |-> last, exc |-> e]
        ELSE IF o = "nav_timeout" /\ ~final
            THEN [kind |-> "retry", last |-> last, exc |-> NoExc]
        ELSE IF final THEN exhausted(e)
        ELSE [kind |-> "retry", last |-> e, exc |-> NoExc]

\* What the normalization LLM may answer.
NormalizeReplies ==
    {[kind |-> k, item |-> DefaultItem] : k \in {"api_error", "bad_json"}}
    \cup {[kind |-> "json", item |-> d] : d \in {x \in ItemDicts : x.job_available}}

\* llm_normalize_job_data: never raises; any failure yields a fallback record.
llm_normalize_job_data(url, raw_scrape, reply) ==
    LET source_title == raw_scrape.title
        raw_text == raw_scrape.text
        item == reply.item
        fallback ==
            [url |-> url,
             job_title |-> IF source_title # <<>> THEN source_title
                           ELSE <<"Unknown", "Position">>,
             company_name |-> <<>>,
             job_description |-> IF raw_text # <<>> THEN raw_text
                                 ELSE <<"Unable", "to", "extract", "job", "description">>,
             location |-> <<>>, visa_feasibility |-> "unknown",
             extraction_method |-> NoneV]
        missing == item.job_title = <<>> \/ item.company_name = <<>>
                   \/ item.job_description = <<>>
        visa == IF Truthy(item.visa_feasibility) THEN item.visa_feasibility
                ELSE infer_visa_feasibility(
                        [NoRec EXCEPT !.location = item.location,
                                      !.job_description = item.job_description])
    IN  IF reply.kind # "json" \/ missing THEN fallback
        ELSE [url |-> url, job_title |-> item.job_title,
              company_name |-> item.company_name,
              job_description |-> item.job_description,
              location |-> item.location, visa_feasibility |-> visa,
              extraction_method |-> NoneV]

\* Variant: _playwright_path has only the final except Exception clause.
PlaywrightPathError_wrap_all(e) ==
    Exc("Exception", <<"Playwright", "extraction", "failed", ":">> \o e.msg)

\* The except clauses of _playwright_path: the scraper's JobUnavailableError is
\* converted to crawl4ai_service's and re-raised unwrapped; anything else is
\* wrapped in a plain Exception.
PlaywrightPathError(e) ==
    IF e.cls = "playwright_scraper_service.JobUnavailableError"
        THEN Exc("crawl4ai_service.JobUnavailableError", e.msg)
    ELSE IF e.cls = "crawl4ai_service.JobUnavailableError" THEN e
    ELSE Exc("Exception", <<"Playwright", "extraction", "failed", ":">> \o e.msg)

(***************************************************************************)
(* Evaluation call (app/tasks.py:117, services/llm_evaluation_service.py)  *)
(***************************************************************************)
\* The parameters of evaluate_job_match.
evaluate_job_match_params == {"job_text", "location", "work_mode"}

\* The keyword arguments of the call in process_job_pipeline.
evaluate_call_kwargs == {"visa_warning"}

\* Python's argument binding: a keyword the function does not declare is a
\* TypeError, raised before the function body runs.
BindKeywords(fn, params, kwargs) ==
    IF kwargs \subseteq params THEN NoExc
    ELSE Exc("TypeError", <<fn, "()", "got", "an", "unexpected", "keyword", "argument">>)


(***************************************************************************)
(* Task lifecycle: the result backend entry of a task                      *)
(***************************************************************************)
NoResult == [status |-> NoneV, reason |-> <<>>]

\* A task id the backend holds nothing for reads as PENDING.
NoEntry ==
    [state |-> "PENDING", stage |-> NoneV, progress |-> 0,
     result |-> NoResult, error |-> NoExc]

\* task_track_started=True: the worker records STARTED when it picks a task up.
task_track_started == TRUE

\* The update_state calls of process_job_task and process_job_pipeline, in
\* source order: the stage and the progress each one reports.
StageOrder ==
    << "starting", "duplicate_check", "extracting", "evaluating", "tailoring_resume",
       "compiling_resume_pdf", "tailoring_cover_letter", "compiling_cover_letter_pdf",
       "saving_to_notion", "complete" >>

\* Variant: the evaluating stage reports 15 instead of 35.
StageProgress_typo(stage) ==
    CASE stage = "starting" -> 0
      [] stage = "duplicate_check" -> 10
      [] stage = "extracting" -> 20
      [] stage = "evaluating" -> 15
      [] stage = "tailoring_resume" -> 45
      [] stage = "compiling_resume_pdf" -> 55
      [] stage = "tailoring_cover_letter" -> 65
      [] stage = "compiling_cover_letter_pdf" -> 75
      [] stage = "saving_to_notion" -> 85
      [] stage = "complete" -> 100

StageProgress(stage) ==
    CASE stage = "starting" -> 0
      [] stage = "duplicate_check" -> 10
      [] stage = "extracting" -> 20
      [] stage = "evaluating" -> 35
      [] stage = "tailoring_resume" -> 45
      [] stage = "compiling_resume_pdf" -> 55
      [] stage = "tailoring_cover_letter" -> 65
      [] stage = "compiling_cover_letter_pdf" -> 75
      [] stage = "saving_to_notion" -> 85
      [] stage = "complete" -> 100

\* Variant: update_state passes Celery's conventional custom state PROGRESS.
StageState_progress(stage) == "PROGRESS"

\* The state every update_state call passes.
StageState(stage) == "PROCESSING"

\* task.update_state(state=..., meta={"stage": ..., "progress": ...})
update_state(entry, stage) ==
    [entry EXCEPT !.state = StageState(stage), !.stage = stage,
                  !.progress = StageProgress(stage)]

\* The worker stores the value the task returns, or the exception it raises.
StoreSuccess(result) ==
    [state |-> "SUCCESS", stage |-> NoneV, progress |-> 0,
     result |-> result, error |-> NoExc]

StoreFailure(e) ==
    [state |-> "FAILURE", stage |-> NoneV, progress |-> 0,
     result |-> NoResult, error |-> e]

\* except Exception in process_job_task: log and re-raise.
process_job_task_except(e) == e

(***************************************************************************)
(* The run                                                                 *)
(***************************************************************************)
Threshold == 70

\* Scores the evaluation model may give.
Scores == {Threshold, Threshold + 1}

\* What the services behind the later stages would do for the job if they were
\* asked: the score of the evaluation model, and whether the resume and the
\* cover-letter services would fail.
Scenarios ==
    [eval_score : Scores,
     resume : {"ok", "raises"},
     cover : {"ok", "raises"}]

\* Variant: the call before the evaluation reports the extracting stage again.
PendingStage_repeat(p) ==
    CASE p = "picked" -> "starting"
      [] p = "in_starting" -> "duplicate_check"
      [] p = "at_extracting" -> "extracting"
      [] p = "at_evaluating" -> "extracting"
      [] OTHER -> NoneV

\* Variant: the pipeline goes from the starting stage straight to extraction.
PendingStage_skip(p) ==
    CASE p = "picked" -> "starting"
      [] p = "in_starting" -> "extracting"
      [] p = "at_extracting" -> "extracting"
      [] p = "at_evaluating" -> "evaluating"
      [] OTHER -> NoneV

\* The update_state call the task is about to make, by its position.
PendingStage(p) ==
    CASE p = "picked" -> "starting"
      [] p = "in_starting" -> "duplicate_check"
      [] p = "at_extracting" -> "extracting"
      [] p = "at_evaluating" -> "evaluating"
      [] OTHER -> NoneV

\* What the run has met so far: the outcome of the catalog lookup, the
\* exception raised inside crawl4ai_extract's try block, and the
\* exceptions raised by crawl4ai_extract, by playwright_scrape_job, by
\* extract_job_data and by the call of evaluate_job_match, and the stage and
\* progress of each update_state call.
NoHist ==
    [lookup |-> NoneV, cause |-> NoExc, fast |-> NoExc, scrape |-> NoExc,
     extract |-> NoExc, evaluate |-> NoExc, reports |-> <<>>]

\* No request is being served.
NoResponse == [code |-> 0, status |-> NoneV, task_id |-> NoneV, detail |-> <<>>]

AddIdle ==
    [pc |-> "idle", url |-> NoneV, force_playwright |-> FALSE, ran |-> <<>>,
     normalized |-> NoRec, raw_scraped |-> NoRaw, exc |-> NoExc,
     response |-> NoResponse]

\* The client has posted no batch.
BatchIdle ==
    [pc |-> "idle", urls |-> <<>>, force_playwright |-> FALSE, enqueued |-> <<>>,
     result |-> [error |-> NoneV, jobs |-> <<>>, submitted |-> 0, queued |-> 0, failed |-> 0],
     session |-> {}, shown |-> [queued |-> 0, failed |-> 0]]

\* No cancel request has been answered.
NoCancel == [task |-> NoneV, outcome |-> NoneV, previousState |-> NoneV]

\* process_job_pipeline has not reached the lines past the evaluation call.
TailIdle == [pc |-> "idle"]

\* save_job_to_notion is not running.
NotionIdle == [pc |-> "idle"]

\* The executors that may work on tasks at the same time.
MaxExecutors == 3

Executors == 1 .. MaxExecutors

\* No executor has a task.
RaceIdle == [pc |-> [e \in Executors |-> "idle"], persisted |-> 0]

ApiInit ==
    /\ addreq = AddIdle /\ batch = BatchIdle /\ cancelreq = NoCancel
    /\ tail = TailIdle /\ notion = NotionIdle /\ race = RaceIdle

TaskInit ==
    /\ req \in [Tasks -> [url : Urls, force_playwright : BOOLEAN]]
    /\ scn \in [Tasks -> Scenarios]
    /\ backend = [t \in Tasks |-> NoEntry]
    /\ pc = [t \in Tasks |-> "queued"]
    /\ calls = [t \in Tasks |-> <<>>]
    /\ hist = [t \in Tasks |-> NoHist]
    /\ normalized = [t \in Tasks |-> NoRec]
    /\ attempt = [t \in Tasks |-> 0]
    /\ last_error = [t \in Tasks |-> NoExc]
    /\ raw_scraped = [t \in Tasks |-> NoRaw]

Init ==
    /\ TaskInit
    /\ catalog \in SUBSET Urls
    /\ ApiInit

\* The collaborator calls of process_job_pipeline, in the order of their call
\* sites.
PipelineCallOrder ==
    <<"check_if_job_exists", "extract_job_data", "evaluate_job_match",
      "tailor_resume", "compile_resume_to_pdf", "upload_pdf_to_supabase",
      "tailor_cover_letter", "compile_cover_letter_to_pdf", "upload_pdf_to_supabase",
      "save_job_to_notion">>

Called(t, names) == [calls EXCEPT ![t] = @ \o names]

\* process_job_pipeline returns `result`: the task is stored SUCCESS.
TaskReturns(t, result) ==
    /\ backend' = [backend EXCEPT ![t] = StoreSuccess(result)]
    /\ pc' = [pc EXCEPT ![t] = "done"]

\* An exception leaves process_job_pipeline: the task is stored FAILURE.
TaskRaises(t, e) ==
    /\ backend' = [backend EXCEPT ![t] = StoreFailure(process_job_task_except(e))]
    /\ pc' = [pc EXCEPT ![t] = "done"]

\* Variant: process_job_pipeline has no except clause for VisaRestrictedError.
BusinessResult_unavailable_only(e) ==
    IF e.cls = "crawl4ai_service.JobUnavailableError"
        THEN [status |-> "unavailable", reason |-> e.msg]
    ELSE NoResult

\* Variant: one except Exception clause turns every extraction error into the
\* unavailable result.
BusinessResult_catch_all(e) == [status |-> "unavailable", reason |-> e.msg]

\* The except clauses around extract_job_data in process_job_pipeline: the
\* result the pipeline returns for the exception, or NoResult if none catches it.
BusinessResult(e) ==
    IF e.cls = "crawl4ai_service.JobUnavailableError"
        THEN [status |-> "unavailable", reason |-> e.msg]
    ELSE IF e.cls = "crawl4ai_service.VisaRestrictedError"
        THEN [status |-> "visa_restricted", reason |-> e.msg]
    ELSE NoResult

\* extract_job_data raises `e`.
ExtractionRaises(t, e) ==
    IF BusinessResult(e) # NoResult THEN TaskReturns(t, BusinessResult(e))
    ELSE TaskRaises(t, e)

\* extract_job_data returns `rec`.
ExtractionReturns(t, rec) ==
    /\ normalized' = [normalized EXCEPT ![t] = rec]
    /\ pc' = [pc EXCEPT ![t] = "at_evaluating"]
    /\ UNCHANGED backend

\* Variant: the pipeline ignores the answer of the duplicate check.
DuplicateExit_never(duplicate_check) == FALSE

\* if duplicate_check["exists"]: return {"status": "duplicate", ...}
DuplicateExit(duplicate_check) == duplicate_check.exists

\* A worker picks the task up; it discards a task revoked while it was queued.
Pickup(t) ==
    /\ pc[t] = "queued"
    /\ backend[t].state # "REVOKED"
    /\ backend' = [backend EXCEPT ![t] =
            IF task_track_started THEN [@ EXCEPT !.state = "STARTED"] ELSE @]
    /\ pc' = [pc EXCEPT ![t] = "picked"]
    /\ UNCHANGED apivars
    /\ UNCHANGED <<req, scn, catalog, calls, hist, normalized, attempt, last_error, raw_scraped>>

\* One update_state call at a stage boundary.
ReportStage(t) ==
    /\ PendingStage(pc[t]) # NoneV
    /\ backend' = [backend EXCEPT ![t] = update_state(@, PendingStage(pc[t]))]
    /\ pc' = [pc EXCEPT ![t] = "in_" \o PendingStage(pc[t])]
    /\ hist' = [hist EXCEPT ![t].reports =
                    Append(@, <<backend'[t].stage, backend'[t].progress>>)]
    /\ UNCHANGED apivars
    /\ UNCHANGED <<req, scn, catalog, calls, normalized, attempt, last_error, raw_scraped>>

\* Stage 1: await check_if_job_exists(url); a duplicate ends the task.
DuplicateCheck(t) ==
    /\ pc[t] = "in_duplicate_check"
    /\ \E lookup \in LookupOutcomes :
        LET r == check_if_job_exists(req[t].url, lookup, catalog)
        IN  /\ calls' = Called(t, <<"check_if_job_exists">>)
            /\ hist' = [hist EXCEPT ![t].lookup = lookup]
            /\ IF r.exc # NoExc THEN TaskRaises(t, r.exc)
               ELSE IF DuplicateExit(r)
                   THEN TaskReturns(t, [status |-> "duplicate", reason |-> <<>>])
               ELSE /\ pc' = [pc EXCEPT ![t] = "at_extracting"]
                    /\ UNCHANGED backend
    /\ UNCHANGED apivars
    /\ UNCHANGED <<req, scn, catalog, normalized, attempt, last_error, raw_scraped>>

\* Stage 2, force_playwright false: extract_job_data runs the fast path and
\* returns, raises, or enters _playwright_path.
ExtractFast(t) ==
    /\ pc[t] = "in_extracting"
    /\ ~SkipFastPath(req[t].force_playwright)
    /\ \E crawl \in CrawlInputs :
        LET r == crawl4ai_extract(req[t].url, crawl)
            d == FastPathDecision(r)
        IN  /\ hist' = [hist EXCEPT ![t].cause = Crawl4aiBody(req[t].url, crawl).exc,
                                     ![t].fast = r.exc,
                                     ![t].extract = IF d.kind = "raise" THEN d.exc ELSE NoExc]
            /\ IF d.kind = "return"
                   THEN /\ ExtractionReturns(t, d.rec)
                        /\ calls' = Called(t, <<"extract_job_data", "crawl4ai_extract">>)
               ELSE IF d.kind = "raise"
                   THEN /\ ExtractionRaises(t, d.exc)
                        /\ calls' = Called(t, <<"extract_job_data", "crawl4ai_extract">>)
                        /\ UNCHANGED normalized
               ELSE /\ pc' = [pc EXCEPT ![t] = "scrape"]
                    /\ calls' = Called(t, <<"extract_job_data", "crawl4ai_extract",
                                            "_playwright_path", "playwright_scrape_job">>)
                    /\ UNCHANGED <<backend, normalized>>
    /\ UNCHANGED apivars
    /\ UNCHANGED <<req, scn, catalog, attempt, last_error, raw_scraped>>

\* Stage 2, force_playwright true: extract_job_data enters _playwright_path.
ExtractForced(t) ==
    /\ pc[t] = "in_extracting"
    /\ SkipFastPath(req[t].force_playwright)
    /\ pc' = [pc EXCEPT ![t] = "scrape"]
    /\ calls' = Called(t, <<"extract_job_data", "_playwright_path", "playwright_scrape_job">>)
    /\ UNCHANGED apivars
    /\ UNCHANGED <<req, scn, catalog, backend, hist, normalized, attempt, last_error, raw_scraped>>

\* One pass of the retry loop of playwright_scrape_job.
PlaywrightAttempt(t) ==
    /\ pc[t] = "scrape"
    /\ \E o \in AttemptOutcomes, raw \in RawScrapes :
        LET s == ScrapeStep(attempt[t], last_error[t], o)
        IN  /\ last_error' = [last_error EXCEPT ![t] = s.last]
            /\ IF s.kind = "return"
                   THEN /\ raw_scraped' = [raw_scraped EXCEPT ![t] = raw]
                        /\ pc' = [pc EXCEPT ![t] = "normalize"]
                        /\ UNCHANGED <<backend, attempt, hist>>
               ELSE IF s.kind = "raise"
                   THEN /\ ExtractionRaises(t, PlaywrightPathError(s.exc))
                        /\ hist' = [hist EXCEPT ![t].scrape = s.exc,
                                                 ![t].extract = PlaywrightPathError(s.exc)]
                        /\ UNCHANGED <<raw_scraped, attempt>>
               ELSE /\ attempt' = [attempt EXCEPT ![t] = @ + 1]
                    /\ UNCHANGED <<backend, pc, raw_scraped, hist>>
    /\ UNCHANGED apivars
    /\ UNCHANGED <<req, scn, catalog, calls, normalized>>

\* _playwright_path, step 2: await llm_normalize_job_data(raw_scraped).
Normalize(t) ==
    /\ pc[t] = "normalize"
    /\ \E reply \in NormalizeReplies :
        LET rec == llm_normalize_job_data(req[t].url, raw_scraped[t], reply)
        IN  ExtractionReturns(t, [rec EXCEPT !.extraction_method = "playwright+llm"])
    /\ calls' = Called(t, <<"llm_normalize_job_data">>)
    /\ UNCHANGED apivars
    /\ UNCHANGED <<req, scn, catalog, hist, attempt, last_error, raw_scraped>>

\* Stage 3: evaluate_job_match(normalized["job_description"], visa_warning=...).
\* The keyword does not bind, so the call raises before the evaluation runs; the
\* stages after it are never entered.
Evaluate(t) ==
    /\ pc[t] = "in_evaluating"
    /\ LET e == BindKeywords("evaluate_job_match", evaluate_job_match_params,
                             evaluate_call_kwargs)
       IN  IF e # NoExc THEN TaskRaises(t, e)
           ELSE /\ pc' = [pc EXCEPT ![t] = "evaluate_body"]
                /\ UNCHANGED backend
    /\ calls' = Called(t, <<"evaluate_job_match">>)
    /\ hist' = [hist EXCEPT ![t].evaluate =
                    BindKeywords("evaluate_job_match", evaluate_job_match_params,
                                 evaluate_call_kwargs)]
    /\ UNCHANGED apivars
    /\ UNCHANGED <<req, scn, catalog, normalized, attempt, last_error, raw_scraped>>

\* result_expires: the backend drops the stored result of a finished task.
Expire(t) ==
    /\ pc[t] = "done"
    /\ backend' = [backend EXCEPT ![t] = NoEntry]
    /\ pc' = [pc EXCEPT ![t] = "expired"]
    /\ UNCHANGED apivars
    /\ UNCHANGED <<req, scn, catalog, calls, hist, normalized, attempt, last_error, raw_scraped>>

Next ==
    \E t \in Tasks :
        \/ Pickup(t)
        \/ ReportStage(t)
        \/ DuplicateCheck(t)
        \/ ExtractFast(t)
        \/ ExtractForced(t)
        \/ PlaywrightAttempt(t)
        \/ Normalize(t)
        \/ Evaluate(t)
        \/ Expire(t)

Spec == Init /\ [][Next]_vars

\* The worker keeps running the task it picked up, and every call the task
\* awaits returns or raises: a step that is possible is eventually taken.
FairInit ==
    /\ TaskInit
    /\ scn = [t \in Tasks |-> CHOOSE x \in Scenarios : TRUE]
    /\ catalog \in SUBSET Urls
    /\ ApiInit

FairSpec == FairInit /\ [][Next]_vars /\ WF_vars(Next)

(***************************************************************************)
(* POST /jobs/add (app/routes.py)                                          *)
(***************************************************************************)
\* playwright_scrape_job as a whole: the retry loop run over the outcomes
\* `outs` of its attempts.
RECURSIVE ScrapeLoop(_, _, _)
ScrapeLoop(att, last, outs) ==
    LET s == ScrapeStep(att, last, outs[att + 1])
    IN  IF s.kind = "retry" THEN ScrapeLoop(att + 1, s.last, outs) ELSE s

playwright_scrape_job(outs) == ScrapeLoop(0, NoExc, outs)

\* return {...}: FastAPI answers 200 with the dict.
Respond(status, reason) ==
    [code |-> 200, status |-> status, task_id |-> NoneV, detail |-> reason]

\* except Exception as e: raise HTTPException(status_code=500, detail=str(e))
RespondError(e) ==
    [code |-> 500, status |-> NoneV, task_id |-> NoneV, detail |-> e.msg]

\* The except clauses of add_job around extract_job_data, then the outer one:
\* the request as it stands once add_job has answered.
AddJobExtractionRaises(e) ==
    IF e.cls = "crawl4ai_service.JobUnavailableError"
        THEN [addreq EXCEPT !.pc = "responded", !.exc = e,
                            !.response = Respond("unavailable", e.msg)]
    ELSE IF e.cls = "crawl4ai_service.VisaRestrictedError"
        THEN [addreq EXCEPT !.pc = "responded", !.exc = e,
                            !.response = Respond("visa_restricted", e.msg)]
    ELSE [addreq EXCEPT !.pc = "responded", !.exc = e, !.response = RespondError(e)]

\* A client posts {url, force_playwright}; the handler starts.
AddJobReceive ==
    /\ addreq.pc = "idle"
    /\ \E u \in Urls, f \in BOOLEAN :
        addreq' = [addreq EXCEPT !.pc = "check", !.url = u, !.force_playwright = f]
    /\ UNCHANGED <<taskvars, catalog, batch, cancelreq, sidevars>>

\* Step 0: await check_if_job_exists(url); a duplicate is answered at once.
AddJobDuplicateCheck ==
    /\ addreq.pc = "check"
    /\ \E lookup \in LookupOutcomes :
        LET r == check_if_job_exists(addreq.url, lookup, catalog)
            ran == Append(addreq.ran, "check_if_job_exists")
        IN  IF r.exc # NoExc
                THEN addreq' = [addreq EXCEPT !.pc = "responded", !.ran = ran,
                                              !.exc = r.exc,
                                              !.response = RespondError(r.exc)]
            ELSE IF r.exists
                THEN addreq' = [addreq EXCEPT !.pc = "responded", !.ran = ran,
                                              !.response = Respond("duplicate", <<>>)]
            ELSE addreq' = [addreq EXCEPT !.pc = "extract", !.ran = ran]
    /\ UNCHANGED <<taskvars, catalog, batch, cancelreq, sidevars>>

\* Step 1, force_playwright false: extract_job_data runs the fast path.
AddJobExtractFast ==
    /\ addreq.pc = "extract"
    /\ ~SkipFastPath(addreq.force_playwright)
    /\ \E crawl \in CrawlInputs :
        LET d == FastPathDecision(crawl4ai_extract(addreq.url, crawl))
            a == [addreq EXCEPT !.ran = Append(@, "extract_job_data")]
        IN  addreq' =
                IF d.kind = "return"
                    THEN [a EXCEPT !.pc = "evaluate", !.normalized = d.rec]
                ELSE IF d.kind = "raise"
                    THEN [AddJobExtractionRaises(d.exc) EXCEPT !.ran = a.ran]
                ELSE [a EXCEPT !.pc = "scrape"]
    /\ UNCHANGED <<taskvars, catalog, batch, cancelreq, sidevars>>

\* Step 1, force_playwright true: extract_job_data enters _playwright_path.
AddJobExtractForced ==
    /\ addreq.pc = "extract"
    /\ SkipFastPath(addreq.force_playwright)
    /\ addreq' = [addreq EXCEPT !.pc = "scrape", !.ran = Append(@, "extract_job_data")]
    /\ UNCHANGED <<taskvars, catalog, batch, cancelreq, sidevars>>

\* _playwright_path, step 1: await playwright_scrape_job(url).
AddJobScrape ==
    /\ addreq.pc = "scrape"
    /\ \E outs \in [1..max_retries -> AttemptOutcomes], raw \in RawScrapes :
        LET s == playwright_scrape_job(outs)
        IN  addreq' =
                IF s.kind = "return"
                    THEN [addreq EXCEPT !.pc = "normalize", !.raw_scraped = raw]
                ELSE AddJobExtractionRaises(PlaywrightPathError(s.exc))
    /\ UNCHANGED <<taskvars, catalog, batch, cancelreq, sidevars>>

\* _playwright_path, step 2: await llm_normalize_job_data(raw_scraped).
AddJobNormalize ==
    /\ addreq.pc = "normalize"
    /\ \E reply \in NormalizeReplies :
        LET rec == llm_normalize_job_data(addreq.url, addreq.raw_scraped, reply)
        IN  addreq' = [addreq EXCEPT
                          !.pc = "evaluate",
                          !.normalized = [rec EXCEPT !.extraction_method = "playwright+llm"]]
    /\ UNCHANGED <<taskvars, catalog, batch, cancelreq, sidevars>>

\* Step 2: evaluate_job_match(normalized["job_description"], visa_warning=...):
\* the same call as in process_job_pipeline, with the same unbound keyword.
AddJobEvaluate ==
    /\ addreq.pc = "evaluate"
    /\ LET e == BindKeywords("evaluate_job_match", evaluate_job_match_params,
                             evaluate_call_kwargs)
           a == [addreq EXCEPT !.ran = Append(@, "evaluate_job_match")]
       IN  addreq' =
               IF e # NoExc
                   THEN [a EXCEPT !.pc = "responded", !.exc = e,
                                  !.response = RespondError(e)]
               ELSE [a EXCEPT !.pc = "evaluate_body"]
    /\ UNCHANGED <<taskvars, catalog, batch, cancelreq, sidevars>>

AddJobInit ==
    /\ TaskInit
    /\ scn = [t \in Tasks |-> CHOOSE x \in Scenarios : TRUE]
    /\ req = [t \in Tasks |-> [url |-> CHOOSE u \in Urls : TRUE, force_playwright |-> FALSE]]
    /\ catalog \in SUBSET Urls
    /\ ApiInit

AddJobNext ==
    \/ AddJobReceive
    \/ AddJobDuplicateCheck
    \/ AddJobExtractFast
    \/ AddJobExtractForced
    \/ AddJobScrape
    \/ AddJobNormalize
    \/ AddJobEvaluate

\* One request to POST /jobs/add, served by the web process.
AddJobSpec == AddJobInit /\ [][AddJobNext]_vars

(***************************************************************************)
(* Batch submission (streamlit_app.py; the endpoint POST /jobs/batch)      *)
(***************************************************************************)
\* Longest batch the client posts.
MaxBatch == 3

\* Lines that start with "http" but are no absolute url.
MalformedUrls == {"http://"}

\* Lines of the url box the page keeps: those that start with "http".
UrlInputs == {"https://jobs.example/1", "https://jobs.example/2"} \cup MalformedUrls

BatchInputs == UNION {[1..n -> UrlInputs] : n \in 1..MaxBatch}

\* The endpoint, for one url at position i of the batch: a malformed url gets
\* an error entry, a well-formed one is enqueued and gets its task id.
BatchEntry(urls, i) ==
    IF urls[i] \in MalformedUrls
        THEN [url |-> urls[i], job_id |-> NoneV, error |-> "invalid url"]
        ELSE [url |-> urls[i], job_id |-> "job-" \o ToString(i), error |-> NoneV]

\* The endpoint's answer to a batch.
BatchResponse(urls) ==
    LET jobs == [i \in DOMAIN urls |-> BatchEntry(urls, i)]
        ok(j) == j.job_id # NoneV
        bad(j) == j.error # NoneV
    IN  [error |-> NoneV, jobs |-> jobs, submitted |-> Len(urls),
         queued |-> Len(SelectSeq(jobs, ok)), failed |-> Len(SelectSeq(jobs, bad))]

\* queue_job_batch when the status is not 200, or the request raises.
BatchClientError(kind) ==
    [error |-> kind, jobs |-> <<>>, submitted |-> 0, queued |-> 0, failed |-> 0]

\* Variant: the client takes every entry that has a url for a queued job.
queued_jobs_by_url(jobs) ==
    LET has_url(j) == j.url # NoneV IN SelectSeq(jobs, has_url)

\* queued_jobs = [j for j in result["jobs"] if "job_id" in j]
queued_jobs(jobs) ==
    LET has_job_id(j) == j.job_id # NoneV IN SelectSeq(jobs, has_job_id)

\* failed_jobs = [j for j in result["jobs"] if "error" in j]
failed_jobs(jobs) ==
    LET has_error(j) == j.error # NoneV IN SelectSeq(jobs, has_error)

\* The user presses Queue with a non-empty url list: queue_job_batch posts it.
ClientQueueJobs ==
    /\ batch.pc = "idle"
    /\ \E urls \in BatchInputs, f \in BOOLEAN :
        batch' = [batch EXCEPT !.pc = "posted", !.urls = urls, !.force_playwright = f]
    /\ UNCHANGED <<taskvars, catalog, addreq, cancelreq, sidevars>>

\* POST /jobs/batch is served; queue_job_batch returns the body of a 200
\* answer, or an error dict for another status or a failed request.
BatchSubmit ==
    /\ batch.pc = "posted"
    /\ \E outcome \in {"200", "http_error", "request_error"} :
        LET r == BatchResponse(batch.urls)
            ok(j) == j.job_id # NoneV
        IN  batch' =
                IF outcome = "200"
                    THEN [batch EXCEPT !.pc = "answered", !.result = r,
                                       !.enqueued = SelectSeq(r.jobs, ok)]
                ELSE [batch EXCEPT !.pc = "answered",
                                   !.result = BatchClientError(outcome)]
    /\ UNCHANGED <<taskvars, catalog, addreq, cancelreq, sidevars>>

\* The queue handler of the page: it registers the queued jobs in the session
\* and shows the two counts, or shows the error.
ClientShowResult ==
    /\ batch.pc = "answered"
    /\ batch' =
        IF batch.result.error = NoneV
            THEN [batch EXCEPT
                     !.pc = "shown",
                     !.session = {j.job_id : j \in
                                    {queued_jobs(batch.result.jobs)[i] :
                                        i \in DOMAIN queued_jobs(batch.result.jobs)}},
                     !.shown = [queued |-> Len(queued_jobs(batch.result.jobs)),
                                failed |-> Len(failed_jobs(batch.result.jobs))]]
        ELSE [batch EXCEPT !.pc = "shown"]
    /\ UNCHANGED <<taskvars, catalog, addreq, cancelreq, sidevars>>

BatchInit ==
    /\ TaskInit
    /\ scn = [t \in Tasks |-> CHOOSE x \in Scenarios : TRUE]
    /\ req = [t \in Tasks |-> [url |-> CHOOSE u \in Urls : TRUE, force_playwright |-> FALSE]]
    /\ catalog = {}
    /\ ApiInit

BatchNext ==
    \/ ClientQueueJobs
    \/ BatchSubmit
    \/ ClientShowResult

\* One batch posted from the page.
BatchSpec == BatchInit /\ [][BatchNext]_vars

(***************************************************************************)
(* Cancellation (the cancel endpoint), against the worker of app/tasks.py  *)
(***************************************************************************)
\* Cancel {taskId} -> {cancelled | cannotCancel, previousState}: a task whose
\* status is terminal cannot be cancelled; any other is moved to REVOKED.
CancelDecision(entry) ==
    IF entry.state \in {"SUCCESS", "FAILURE", "REVOKED"}
        THEN [outcome |-> "cannotCancel", entry |-> entry]
        ELSE [outcome |-> "cancelled", entry |-> [entry EXCEPT !.state = "REVOKED"]]

\* A client asks to cancel task t.
CancelTask(t) ==
    /\ pc[t] # "expired"
    /\ LET d == CancelDecision(backend[t])
       IN  /\ backend' = [backend EXCEPT ![t] = d.entry]
           /\ cancelreq' = [task |-> t, outcome |-> d.outcome,
                            previousState |-> backend[t].state]
    /\ UNCHANGED <<req, scn, catalog, pc, calls, hist, normalized, attempt, last_error,
                   raw_scraped, addreq, batch, sidevars>>

CancelInit ==
    /\ TaskInit
    /\ scn = [t \in Tasks |-> CHOOSE x \in Scenarios : TRUE]
    /\ catalog \in SUBSET Urls
    /\ ApiInit

CancelNext ==
    \E t \in Tasks :
        \/ Pickup(t)
        \/ ReportStage(t)
        \/ DuplicateCheck(t)
        \/ ExtractFast(t)
        \/ ExtractForced(t)
        \/ PlaywrightAttempt(t)
        \/ Normalize(t)
        \/ Evaluate(t)
        \/ Expire(t)
        \/ CancelTask(t)

\* The worker and a client that may cancel the task at any moment.
CancelSpec == CancelInit /\ [][CancelNext]_vars

(***************************************************************************)
(* process_job_pipeline from the return of evaluate_job_match on            *)
(* (app/tasks.py, lines 121-305)                                            *)
(***************************************************************************)
\* The parameters of upload_pdf_to_supabase.
upload_pdf_to_supabase_params ==
    {"pdf_bytes", "position", "company", "filename_prefix", "bucket_name"}

\* The keyword arguments of the two upload calls in process_job_pipeline.
upload_call_kwargs == {"pdf_bytes", "position", "company", "document_type"}

\* What the collaborators of these lines do in one run: each tailoring and
\* compile call and the persistence call return or raise, and so does the
\* update_state call that reports the last stage.
TailEnvs ==
    [tailor_resume : {"ok", "raises"}, compile_resume : {"ok", "raises"},
     tailor_cover_letter : {"ok", "raises"}, compile_cover_letter : {"ok", "raises"},
     save : {"ok", "raises"}, report_complete : {"ok", "raises"}]

\* except Exception as pdf_error: the error is logged; the tailored data
\* assigned before the inner try block stays assigned.
KeptAfterPdfError(data) == data

\* The inner try block of a document: compile, then upload; the PDF URL it
\* leaves, and the calls it made.
CompileAndUpload(compile_fn, compile_outcome) ==
    LET e == BindKeywords("upload_pdf_to_supabase", upload_pdf_to_supabase_params,
                          upload_call_kwargs)
    IN  IF compile_outcome = "raises" THEN [url |-> NoneV, ran |-> <<compile_fn>>]
        ELSE IF e # NoExc
            THEN [url |-> NoneV, ran |-> <<compile_fn, "upload_pdf_to_supabase">>]
        ELSE [url |-> "public_url", ran |-> <<compile_fn, "upload_pdf_to_supabase">>]

\* f"Match score {match_score}% <= 70 threshold"
SkipReason(match_score) ==
    <<"Match", "score", ToString(match_score), "%", "<=", "70", "threshold">>

\* "Add resume info" / "Add cover letter info": the keys of the response that
\* describe one document.
DocumentInfo(data, pdf_url, match_score) ==
    IF data # NoneV
        THEN [tailored |-> TRUE, pdf_generated |-> pdf_url # NoneV, pdf_url |-> pdf_url,
              reason |-> NoneV]
    ELSE [tailored |-> FALSE, pdf_generated |-> FALSE, pdf_url |-> NoneV,
          reason |-> SkipReason(match_score)]

NoHanded ==
    [resume_data |-> NoneV, pdf_url |-> NoneV, cover_letter_data |-> NoneV,
     cover_letter_pdf_url |-> NoneV]

NoDocumentInfo ==
    [tailored |-> FALSE, pdf_generated |-> FALSE, pdf_url |-> NoneV, reason |-> NoneV]

\* The local variables of process_job_pipeline after the evaluation returned.
TailStart(env, match_score) ==
    [pc |-> "gate", env |-> env, match_score |-> match_score,
     resume_data |-> NoneV, cover_letter_data |-> NoneV,
     resume_pdf_url |-> NoneV, cover_letter_pdf_url |-> NoneV,
     ran |-> <<>>, handed |-> NoHanded, persisted |-> 0, state |-> "PROCESSING",
     status |-> NoneV, resume |-> NoDocumentInfo, cover_letter |-> NoDocumentInfo]

\* if match_score > 70: ... else: skip document generation.
TailGate ==
    /\ tail.pc = "gate"
    /\ tail' = [tail EXCEPT !.pc = IF tail.match_score > Threshold
                                        THEN "tailor_resume" ELSE "save"]
    /\ UNCHANGED <<taskvars, catalog, addreq, batch, cancelreq, notion, race>>

\* resume_data = await tailor_resume(...); a raise is caught by the outer try.
TailTailorResume ==
    /\ tail.pc = "tailor_resume"
    /\ tail' = IF tail.env.tailor_resume = "raises"
                   THEN [tail EXCEPT !.pc = "tailor_cover_letter",
                                     !.ran = Append(@, "tailor_resume")]
               ELSE [tail EXCEPT !.pc = "compile_resume", !.resume_data = "resume",
                                 !.ran = Append(@, "tailor_resume")]
    /\ UNCHANGED <<taskvars, catalog, addreq, batch, cancelreq, notion, race>>

\* The inner try block of the resume: compile_resume_to_pdf and the upload.
TailCompileResume ==
    /\ tail.pc = "compile_resume"
    /\ LET r == CompileAndUpload("compile_resume_to_pdf", tail.env.compile_resume)
       IN  tail' = [tail EXCEPT !.pc = "tailor_cover_letter",
                                !.resume_data = IF r.url = NoneV THEN KeptAfterPdfError(@)
                                                ELSE @,
                                !.resume_pdf_url = r.url,
                                !.ran = @ \o r.ran]
    /\ UNCHANGED <<taskvars, catalog, addreq, batch, cancelreq, notion, race>>

\* cover_letter_data = await tailor_cover_letter(...).
TailTailorCoverLetter ==
    /\ tail.pc = "tailor_cover_letter"
    /\ tail' = IF tail.env.tailor_cover_letter = "raises"
                   THEN [tail EXCEPT !.pc = "save", !.ran = Append(@, "tailor_cover_letter")]
               ELSE [tail EXCEPT !.pc = "compile_cover_letter",
                                 !.cover_letter_data = "cover_letter",
                                 !.ran = Append(@, "tailor_cover_letter")]
    /\ UNCHANGED <<taskvars, catalog, addreq, batch, cancelreq, notion, race>>

\* The inner try block of the cover letter.
TailCompileCoverLetter ==
    /\ tail.pc = "compile_cover_letter"
    /\ LET r == CompileAndUpload("compile_cover_letter_to_pdf", tail.env.compile_cover_letter)
       IN  tail' = [tail EXCEPT !.pc = "save",
                                !.cover_letter_data = IF r.url = NoneV
                                                          THEN KeptAfterPdfError(@) ELSE @,
                                !.cover_letter_pdf_url = r.url,
                                !.ran = @ \o r.ran]
    /\ UNCHANGED <<taskvars, catalog, addreq, batch, cancelreq, notion, race>>

\* Stage 5: notion_result = await save_job_to_notion(job_data, resume_data=...,
\* pdf_url=..., cover_letter_data=..., cover_letter_pdf_url=...); a raise leaves
\* the pipeline and the task is stored FAILURE.
TailSave ==
    /\ tail.pc = "save"
    /\ tail' = IF tail.env.save = "raises"
                   THEN [tail EXCEPT !.pc = "done", !.state = "FAILURE",
                                     !.ran = Append(@, "save_job_to_notion")]
               ELSE [tail EXCEPT !.pc = "report_complete",
                                 !.ran = Append(@, "save_job_to_notion"),
                                 !.persisted = @ + 1,
                                 !.handed = [resume_data |-> tail.resume_data,
                                             pdf_url |-> tail.resume_pdf_url,
                                             cover_letter_data |-> tail.cover_letter_data,
                                             cover_letter_pdf_url |-> tail.cover_letter_pdf_url]]
    /\ UNCHANGED <<taskvars, catalog, addreq, batch, cancelreq, notion, race>>

\* task.update_state(... "complete" ...), then the response is built and
\* returned; an error of the update_state call leaves the pipeline.
TailComplete ==
    /\ tail.pc = "report_complete"
    /\ tail' = IF tail.env.report_complete = "raises"
                   THEN [tail EXCEPT !.pc = "done", !.state = "FAILURE"]
               ELSE [tail EXCEPT !.pc = "done", !.state = "SUCCESS", !.status = "success",
                        !.resume = DocumentInfo(tail.resume_data, tail.resume_pdf_url,
                                                tail.match_score),
                        !.cover_letter = DocumentInfo(tail.cover_letter_data,
                                                      tail.cover_letter_pdf_url,
                                                      tail.match_score)]
    /\ UNCHANGED <<taskvars, catalog, addreq, batch, cancelreq, notion, race>>

\* The evaluation call has returned an evaluation with some match score. With
\* the call as it is written (see Evaluate) it raises, so no task of Spec gets
\* here; these lines are followed from this point on their own.
TailInit ==
    /\ TaskInit
    /\ scn = [t \in Tasks |-> CHOOSE x \in Scenarios : TRUE]
    /\ req = [t \in Tasks |-> [url |-> CHOOSE u \in Urls : TRUE, force_playwright |-> FALSE]]
    /\ catalog = {}
    /\ addreq = AddIdle /\ batch = BatchIdle /\ cancelreq = NoCancel /\ notion = NotionIdle
    /\ race = RaceIdle
    /\ \E env \in TailEnvs, match_score \in Scores : tail = TailStart(env, match_score)

TailNext ==
    \/ TailGate
    \/ TailTailorResume
    \/ TailCompileResume
    \/ TailTailorCoverLetter
    \/ TailCompileCoverLetter
    \/ TailSave
    \/ TailComplete

\* The lines of process_job_pipeline that follow the evaluation call.
TailSpec == TailInit /\ [][TailNext]_vars

(***************************************************************************)
(* save_job_to_notion (services/notion_service.py)                         *)
(***************************************************************************)
\* The arguments one call may be given: the evaluation has a visa_warning or
\* not, and each document's data and PDF URL is present or None.
NotionInputs ==
    [visa_warning : BOOLEAN, resume_data : {NoneV, "resume"}, pdf_url : {NoneV, "resume_url"},
     cover_letter_data : {NoneV, "cover_letter"},
     cover_letter_pdf_url : {NoneV, "cover_letter_url"}]

HeadingBlock(content) == [type |-> "heading", content |-> content, url |-> NoneV]

FileBlock(content, url) == [type |-> "file", content |-> content, url |-> url]

\* "Add PDF download link if available", in the resume sections.
ResumeDownloadBlocks(args) ==
    IF args.pdf_url # NoneV
        THEN <<HeadingBlock("Download Tailored Resume"),
               FileBlock("Download Tailored Resume", args.pdf_url)>>
    ELSE <<>>

\* "Add cover letter PDF download link if available", in the cover-letter
\* section: the test reads pdf_url, the block links cover_letter_pdf_url.
CoverLetterDownloadBlocks(args) ==
    IF args.pdf_url # NoneV
        THEN <<HeadingBlock("Download Tailored Cover Letter"),
               FileBlock("Download Tailored Cover Letter", args.cover_letter_pdf_url)>>
    ELSE <<>>

\* The call starts: content_blocks holds section 1, the evaluation.
NotionStart(args) ==
    [pc |-> "resume_sections", args |-> args,
     content_blocks |-> <<HeadingBlock("1. Honest Evaluation")>>
                        \o (IF args.visa_warning THEN <<HeadingBlock("Visa Status")>>
                            ELSE <<>>),
     result |-> NoneV]

\* Sections 2-5, if resume_data: the tailoring blocks.
NotionResumeSections ==
    /\ notion.pc = "resume_sections"
    /\ notion' = IF notion.args.resume_data # NoneV
                     THEN [notion EXCEPT !.pc = "resume_download",
                              !.content_blocks = Append(@, HeadingBlock("2. Resume Tailoring"))]
                 ELSE [notion EXCEPT !.pc = "cover_letter_section"]
    /\ UNCHANGED <<taskvars, catalog, addreq, batch, cancelreq, tail, race>>

\* The end of the resume sections: the download link.
NotionResumeDownload ==
    /\ notion.pc = "resume_download"
    /\ notion' = [notion EXCEPT !.pc = "cover_letter_section",
                      !.content_blocks = @ \o ResumeDownloadBlocks(notion.args)]
    /\ UNCHANGED <<taskvars, catalog, addreq, batch, cancelreq, tail, race>>

\* Section 6, if cover_letter_data: the cover-letter blocks.
NotionCoverLetterSection ==
    /\ notion.pc = "cover_letter_section"
    /\ notion' = IF notion.args.cover_letter_data # NoneV
                     THEN [notion EXCEPT !.pc = "cover_letter_download",
                              !.content_blocks = Append(@, HeadingBlock("6. Cover Letter"))]
                 ELSE [notion EXCEPT !.pc = "create_page"]
    /\ UNCHANGED <<taskvars, catalog, addreq, batch, cancelreq, tail, race>>

\* The end of the cover-letter section: the download link.
NotionCoverLetterDownload ==
    /\ notion.pc = "cover_letter_download"
    /\ notion' = [notion EXCEPT !.pc = "create_page",
                      !.content_blocks = @ \o CoverLetterDownloadBlocks(notion.args)]
    /\ UNCHANGED <<taskvars, catalog, addreq, batch, cancelreq, tail, race>>

\* response = await notion.pages.create(..., children=content_blocks): the page
\* ids are returned, or the API's error is re-raised as "Notion save failed".
NotionCreatePage ==
    /\ notion.pc = "create_page"
    /\ \E outcome \in {"created", "api_error"} :
        notion' = [notion EXCEPT !.pc = "done", !.result = outcome]
    /\ UNCHANGED <<taskvars, catalog, addreq, batch, cancelreq, tail, race>>

NotionInit ==
    /\ TaskInit
    /\ scn = [t \in Tasks |-> CHOOSE x \in Scenarios : TRUE]
    /\ req = [t \in Tasks |-> [url |-> CHOOSE u \in Urls : TRUE, force_playwright |-> FALSE]]
    /\ catalog = {}
    /\ addreq = AddIdle /\ batch = BatchIdle /\ cancelreq = NoCancel /\ tail = TailIdle
    /\ race = RaceIdle
    /\ \E args \in NotionInputs : notion = NotionStart(args)

NotionNext ==
    \/ NotionResumeSections
    \/ NotionResumeDownload
    \/ NotionCoverLetterSection
    \/ NotionCoverLetterDownload
    \/ NotionCreatePage

\* One call of save_job_to_notion.
NotionSpec == NotionInit /\ [][NotionNext]_vars

(***************************************************************************)
(* Tasks for one URL on several executors (app/tasks.py, lines 73-240)      *)
(***************************************************************************)
\* The URL every task of this section was submitted with.
RaceUrl == CHOOSE u \in Urls : TRUE

\* An executor picks its task up.
RacePickup(e) ==
    /\ race.pc[e] = "queued"
    /\ race' = [race EXCEPT !.pc[e] = "check"]
    /\ UNCHANGED <<taskvars, catalog, addreq, batch, cancelreq, tail, notion>>

\* Stage 1: the lookup answers without error; a duplicate ends the task.
RaceCheck(e) ==
    /\ race.pc[e] = "check"
    /\ LET duplicate_check == check_if_job_exists(RaceUrl, "ok", catalog)
       IN  race' = [race EXCEPT !.pc[e] = IF DuplicateExit(duplicate_check)
                                              THEN "duplicate" ELSE "process"]
    /\ UNCHANGED <<taskvars, catalog, addreq, batch, cancelreq, tail, notion>>

\* Stages 2 to 4 return: extraction, evaluation, documents (taken as
\* returning; see Evaluate for the evaluation call as it is written).
RaceProcess(e) ==
    /\ race.pc[e] = "process"
    /\ race' = [race EXCEPT !.pc[e] = "save"]
    /\ UNCHANGED <<taskvars, catalog, addreq, batch, cancelreq, tail, notion>>

\* Stage 5: save_job_to_notion creates the page for the URL.
RaceSave(e) ==
    /\ race.pc[e] = "save"
    /\ race' = [race EXCEPT !.pc[e] = "done", !.persisted = @ + 1]
    /\ catalog' = catalog \cup {RaceUrl}
    /\ UNCHANGED <<taskvars, addreq, batch, cancelreq, tail, notion>>

RaceInit ==
    /\ TaskInit
    /\ scn = [t \in Tasks |-> CHOOSE x \in Scenarios : TRUE]
    /\ req = [t \in Tasks |-> [url |-> RaceUrl, force_playwright |-> FALSE]]
    /\ catalog \in SUBSET Urls
    /\ addreq = AddIdle /\ batch = BatchIdle /\ cancelreq = NoCancel
    /\ tail = TailIdle /\ notion = NotionIdle
    /\ race = [pc |-> [e \in Executors |-> "queued"], persisted |-> 0]

RaceNext ==
    \E e \in Executors :
        \/ RacePickup(e)
        \/ RaceCheck(e)
        \/ RaceProcess(e)
        \/ RaceSave(e)

\* Several tasks for the same URL, each on its own executor.
RaceSpec == RaceInit /\ [][RaceNext]_vars

(***************************************************************************)
(* Properties                                                              *)
(***************************************************************************)
Terminal == {"SUCCESS", "FAILURE", "REVOKED"}

Count(t, name) == Cardinality({i \in DOMAIN calls[t] : calls[t][i] = name})

WasCalled(t, name) == Count(t, name) > 0

Finished(t) == pc[t] = "done"

\* The fast path ran and raised `hist[t].fast`.
FastRaised(t) == ~req[t].force_playwright /\ hist[t].fast # NoExc

LaterStageCalls ==
    {"evaluate_job_match", "tailor_resume", "tailor_cover_letter",
     "compile_resume_to_pdf", "compile_cover_letter_to_pdf",
     "upload_pdf_to_supabase", "save_job_to_notion"}

\* C1 as stated: the status is one of PENDING, PROCESSING, SUCCESS, FAILURE,
\* REVOKED and changes only PENDING -> PROCESSING -> SUCCESS or FAILURE, or from
\* a non-terminal status to REVOKED; nothing leaves a terminal status.
C1_StatedStatuses == {"PENDING", "PROCESSING", "SUCCESS", "FAILURE", "REVOKED"}

C1_StatedEdges ==
    { <<"PENDING", "PROCESSING">>, <<"PROCESSING", "SUCCESS">>,
      <<"PROCESSING", "FAILURE">>, <<"PENDING", "REVOKED">>,
      <<"PROCESSING", "REVOKED">> }

C1_Statuses == {"PENDING", "STARTED", "PROCESSING", "SUCCESS", "FAILURE", "REVOKED"}

C1_Edges ==
    { <<"PENDING", "STARTED">>, <<"STARTED", "PROCESSING">>,
      <<"PROCESSING", "SUCCESS">>, <<"PROCESSING", "FAILURE">>,
      <<"PENDING", "REVOKED">>, <<"STARTED", "REVOKED">>, <<"PROCESSING", "REVOKED">> }

C2_ProgressNonDecreasing ==
    /\ \A i \in 1..(Len(StageOrder) - 1) :
            StageProgress(StageOrder[i]) <= StageProgress(StageOrder[i + 1])
    /\ [][\A t \in Tasks :
            (backend[t].state \in {"STARTED", "PROCESSING"}
               /\ backend'[t].state = "PROCESSING")
              => backend'[t].progress >= backend[t].progress]_vars

\* The evaluating stage has been reported after the three before it.
C2_Witness ==
    \E t \in Tasks : backend[t].state = "PROCESSING" /\ backend[t].stage = "evaluating"
                     /\ backend[t].progress = 35

\* C3: force false and the fast path raised JobUnavailableError or
\* VisaRestrictedError: the slow path is never invoked and extract_job_data
\* raises that same error.
C3_BusinessOutcomeStopsFallback ==
    \A t \in Tasks :
        (FastRaised(t) /\ IsBusinessOutcome(hist[t].fast))
          => /\ Count(t, "_playwright_path") = 0
             /\ Count(t, "playwright_scrape_job") = 0
             /\ hist[t].extract = hist[t].fast

\* The fast path found the page too short to be a posting.
C3_Witness ==
    \E t \in Tasks :
        /\ FastRaised(t)
        /\ hist[t].fast.cls = "crawl4ai_service.JobUnavailableError"
        /\ Contains(Lower(hist[t].fast.msg), <<"empty">>)
        /\ Finished(t)

\* C4: extract_job_data raised a business outcome, from either path: the task
\* is stored SUCCESS with result.status unavailable or visa_restricted, never
\* FAILURE, and no later stage is called.
C4_BusinessOutcomeIsSuccess ==
    \A t \in Tasks :
        IsBusinessOutcome(hist[t].extract)
          => /\ pc[t] \in {"done", "expired"}
             /\ \A n \in LaterStageCalls : ~WasCalled(t, n)
             /\ Finished(t) =>
                  /\ backend[t].state = "SUCCESS"
                  /\ backend[t].result.status =
                       (IF hist[t].extract.cls = "crawl4ai_service.VisaRestrictedError"
                            THEN "visa_restricted" ELSE "unavailable")

\* The fast path saw a sponsorship restriction.
C4_Witness ==
    \E t \in Tasks :
        /\ hist[t].extract.cls = "crawl4ai_service.VisaRestrictedError"
        /\ Finished(t)
        /\ backend[t].result.status = "visa_restricted"

\* C5: force false and the fast path raised an error _should_attempt_fallback
\* accepts: the slow path is invoked exactly once and the fast path is not run
\* again; if the slow path then fails with a technical error, that error
\* leaves extract_job_data and the task is stored FAILURE.
C5_RecoverableFallsBackOnce ==
    \A t \in Tasks :
        (FastRaised(t) /\ ~IsBusinessOutcome(hist[t].fast)
           /\ _should_attempt_fallback(hist[t].fast))
          => /\ Count(t, "_playwright_path") = 1
             /\ Count(t, "playwright_scrape_job") = 1
             /\ Count(t, "crawl4ai_extract") = 1
             /\ (hist[t].scrape # NoExc
                   /\ hist[t].scrape.cls # "playwright_scraper_service.JobUnavailableError")
                  => /\ Contains(hist[t].extract.msg, hist[t].scrape.msg)
                     /\ pc[t] \in {"done", "expired"}
                     /\ Finished(t) => /\ backend[t].state = "FAILURE"
                                       /\ backend[t].error = hist[t].extract

\* A fast-path timeout, then a slow path that gave up after its attempts.
C5_Witness ==
    \E t \in Tasks :
        /\ FastRaised(t)
        /\ _should_attempt_fallback(hist[t].fast)
        /\ hist[t].scrape.cls = "Exception"
        /\ attempt[t] = max_retries - 1
        /\ Finished(t)
        /\ backend[t].state = "FAILURE"

\* C6: force false and the fast path raised an error that is neither a
\* business outcome nor accepted by _should_attempt_fallback: the slow path is
\* not invoked, extract_job_data re-raises the same error, and the task is
\* stored FAILURE.
C6_NonRecoverableIsFatal ==
    \A t \in Tasks :
        (FastRaised(t) /\ ~IsBusinessOutcome(hist[t].fast)
           /\ ~_should_attempt_fallback(hist[t].fast))
          => /\ Count(t, "_playwright_path") = 0
             /\ Count(t, "playwright_scrape_job") = 0
             /\ hist[t].extract = hist[t].fast
             /\ pc[t] \in {"done", "expired"}
             /\ Finished(t) => /\ backend[t].state = "FAILURE"
                               /\ backend[t].error = hist[t].fast

\* The fast path failed in a way the predicate does not recognise.
C6_Witness ==
    \E t \in Tasks :
        /\ FastRaised(t)
        /\ ~IsBusinessOutcome(hist[t].fast)
        /\ ~_should_attempt_fallback(hist[t].fast)
        /\ Finished(t)
        /\ backend[t].state = "FAILURE"

\* The evaluation stage was entered for a job whose extraction returned a record.
Evaluated(t) == Finished(t) /\ WasCalled(t, "evaluate_job_match")

\* C7: tailoring is attempted exactly when the match score is above 70; at 70
\* or below no tailoring, rendering or upload is called, both documents are
\* reported skipped, and persistence still runs.
C7_ThresholdGatesTailoring ==
    \A t \in Tasks :
        Evaluated(t) =>
            IF scn[t].eval_score > Threshold
                THEN WasCalled(t, "tailor_resume") /\ WasCalled(t, "tailor_cover_letter")
                ELSE /\ \A n \in LaterStageCalls \ {"evaluate_job_match", "save_job_to_notion"} :
                            ~WasCalled(t, n)
                     /\ Count(t, "save_job_to_notion") = 1
                     /\ backend[t].state = "SUCCESS"
                     /\ backend[t].result.status = "success"

\* C8: the score is above 70 and the resume's tailoring, rendering or upload
\* fails: the cover letter is still attempted, persistence runs, and the task
\* is stored SUCCESS with result.status success; likewise with the documents
\* exchanged.
C8_DocumentFailureAbsorbed ==
    \A t \in Tasks :
        (Evaluated(t) /\ scn[t].eval_score > Threshold
           /\ (scn[t].resume = "raises" \/ scn[t].cover = "raises"))
          => /\ scn[t].resume = "raises" => WasCalled(t, "tailor_cover_letter")
             /\ scn[t].cover = "raises" => WasCalled(t, "tailor_resume")
             /\ Count(t, "save_job_to_notion") = 1
             /\ backend[t].state = "SUCCESS"
             /\ backend[t].result.status = "success"

\* C9: a task that is not a duplicate and whose extraction returned a record
\* has called persistence exactly once when it is terminal; a duplicate or a
\* business outcome has called it zero times; it is never called twice.
C9_PersistedExactlyOnce ==
    \A t \in Tasks :
        /\ Count(t, "save_job_to_notion") <= 1
        /\ Finished(t) =>
             IF backend[t].result.status \in {"duplicate", "unavailable", "visa_restricted"}
                 THEN Count(t, "save_job_to_notion") = 0
             ELSE normalized[t] # NoRec => Count(t, "save_job_to_notion") = 1

\* The catalog lookup of the task failed.
LookupFailed(t) ==
    hist[t].lookup \in {"missing_config", "non_200", "request_error", "other_error"}

\* C10: when the lookup fails (configuration missing, non-200 response,
\* request error, any other exception) check_if_job_exists raises nothing and
\* answers exists = false: the task is not ended by the check and goes on to
\* extraction.
C10_LookupFailsOpen ==
    \A t \in Tasks :
        LookupFailed(t) =>
            /\ LET r == check_if_job_exists(req[t].url, hist[t].lookup, catalog)
               IN  r.exc = NoExc /\ ~r.exists
            /\ \/ pc[t] \in {"at_extracting", "in_extracting"}
               \/ WasCalled(t, "extract_job_data")
            /\ Finished(t) => backend[t].result.status # "duplicate"

\* The lookup request failed for a url the catalog holds, and extraction ran.
C10_Witness ==
    \E t \in Tasks :
        /\ hist[t].lookup = "request_error"
        /\ req[t].url \in catalog
        /\ WasCalled(t, "extract_job_data")

\* The duplicate check answered that the url is in the catalog.
ReportedDuplicate(t) ==
    /\ hist[t].lookup # NoneV
    /\ check_if_job_exists(req[t].url, hist[t].lookup, catalog).exists

\* C11: when the duplicate check reports that the url exists, the task ends
\* SUCCESS with result.status duplicate and makes no extraction, evaluation,
\* tailoring, render, upload or persistence call.
C11_DuplicateExitsEarly ==
    \A t \in Tasks :
        ReportedDuplicate(t) =>
            /\ pc[t] \in {"done", "expired"}
            /\ calls[t] = <<"check_if_job_exists">>
            /\ Finished(t) => /\ backend[t].state = "SUCCESS"
                              /\ backend[t].result.status = "duplicate"

\* The catalog holds the url, the lookup answered, and the task has finished.
C11_Witness ==
    \E t \in Tasks :
        /\ ReportedDuplicate(t)
        /\ Finished(t)
        /\ backend[t].result.status = "duplicate"

\* An error left a mandatory stage unhandled: extract_job_data raised something
\* other than a business outcome, or the evaluation call raised.
EscapedMandatory(t) ==
    \/ hist[t].extract # NoExc /\ ~IsBusinessOutcome(hist[t].extract)
    \/ hist[t].evaluate # NoExc

C13_FullRunSucceeds ==
    \A t \in Tasks :
        (/\ Finished(t)
         /\ normalized[t].extraction_method = "crawl4ai"
         /\ scn[t].eval_score > Threshold
         /\ scn[t].resume = "ok"
         /\ scn[t].cover = "ok")
          => /\ WasCalled(t, "tailor_resume")
             /\ WasCalled(t, "tailor_cover_letter")
             /\ WasCalled(t, "save_job_to_notion")
             /\ backend[t].state = "SUCCESS"
             /\ backend[t].result.status = "success"

\* The scraper's availability check (or a 404/410 answer) ended the scrape.
ScrapeFoundUnavailable(t) ==
    hist[t].scrape.cls = "playwright_scraper_service.JobUnavailableError"

\* C18: on the slow path the availability check on the scraped text runs
\* before normalization: when it finds the posting unavailable,
\* llm_normalize_job_data is never called and extract_job_data raises
\* JobUnavailableError with the same reason, as the fast path does, not a
\* wrapped technical failure.
C18_SlowPathUnavailableBeforeNormalize ==
    \A t \in Tasks :
        ScrapeFoundUnavailable(t) =>
            /\ Count(t, "llm_normalize_job_data") = 0
            /\ normalized[t] = NoRec
            /\ hist[t].extract = Exc("crawl4ai_service.JobUnavailableError", hist[t].scrape.msg)
            /\ Finished(t) => /\ backend[t].state = "SUCCESS"
                              /\ backend[t].result.status = "unavailable"

\* The scraped text said the position was filled.
C18_Witness ==
    \E t \in Tasks :
        /\ ScrapeFoundUnavailable(t)
        /\ hist[t].scrape.msg = <<"Position", "already", "filled">>
        /\ Finished(t)

\* C19: every record extract_job_data returns, from either path, has a
\* non-empty job title, company name and job description.
C19_RequiredFieldsPresent ==
    \A t \in Tasks :
        normalized[t] # NoRec =>
            /\ Truthy(normalized[t].job_title)
            /\ Truthy(normalized[t].company_name)
            /\ Truthy(normalized[t].job_description)

\* The stages of C20 with their progress, in order.
C20_NineStages ==
    << <<"duplicate_check", 10>>, <<"extracting", 20>>, <<"evaluating", 35>>,
       <<"tailoring_resume", 45>>, <<"compiling_resume_pdf", 55>>,
       <<"tailoring_cover_letter", 65>>, <<"compiling_cover_letter_pdf", 75>>,
       <<"saving_to_notion", 85>>, <<"complete", 100>> >>

\* The update_state calls of a task report rows of `table`, each at most once
\* and in the order of the table.
C20_ReportsFollow(table) ==
    \A t \in Tasks :
        LET r == hist[t].reports
            row(i) == CHOOSE k \in DOMAIN table : table[k] = r[i]
        IN  /\ \A i \in DOMAIN r : \E k \in DOMAIN table : table[k] = r[i]
            /\ \A i, j \in DOMAIN r : i < j => row(i) < row(j)

\* C20 as stated: every reported stage is one of the nine stages with its
\* progress value, each reported at most once, in that order.
C20_AsStated == C20_ReportsFollow(C20_NineStages)

\* C20 (amended): every reported stage is "starting" with progress 0 or one of
\* the nine stages with its progress value; each is reported at most once, and
\* in that order with "starting" first.  The update_state calls of the source,
\* in source order, are exactly these ten.
C20_StagesInOrder ==
    LET table == << <<"starting", 0>> >> \o C20_NineStages
    IN  /\ C20_ReportsFollow(table)
        /\ table = [i \in DOMAIN StageOrder |->
                        <<StageOrder[i], StageProgress(StageOrder[i])>>]

\* starting, duplicate_check, extracting and evaluating have been reported.
C20_Witness ==
    \E t \in Tasks :
        hist[t].reports = << <<"starting", 0>>, <<"duplicate_check", 10>>,
                             <<"extracting", 20>>, <<"evaluating", 35>> >>

\* C14: POST /jobs/add answers with a task id before any pipeline stage has
\* run, and never reports a pipeline failure as an error of the call.
C14_SubmissionIsImmediate ==
    addreq.pc = "responded" =>
        /\ addreq.response.task_id # NoneV
        /\ addreq.ran = <<>>
        /\ addreq.response.code = 200

\* Number of positions of a batch that hold a malformed url.
MalformedCount(urls) == Cardinality({i \in DOMAIN urls : urls[i] \in MalformedUrls})

CancelAnswered(t) == cancelreq' # cancelreq /\ cancelreq'.task = t

\* The stored result of task t expires in this step.
Evicted(t) == pc'[t] = "expired" /\ backend'[t] = NoEntry

\* C16: cancelling a task whose status is terminal answers cannotCancel and
\* leaves its stored state unchanged; cancelling a PENDING or PROCESSING task
\* moves it to REVOKED; and the running pipeline observes the cancellation at
\* a stage boundary: it does not report a further stage for a revoked task.
C16_CancelIsCooperative ==
    [][\A t \in Tasks :
        /\ (CancelAnswered(t) /\ backend[t].state \in Terminal)
             => cancelreq'.outcome = "cannotCancel" /\ backend'[t] = backend[t]
        /\ (CancelAnswered(t) /\ backend[t].state \in {"PENDING", "PROCESSING"})
             => cancelreq'.outcome = "cancelled" /\ backend'[t].state = "REVOKED"
        /\ (backend[t].state = "REVOKED" /\ PendingStage(pc[t]) # NoneV
              /\ pc'[t] # pc[t])
             => backend'[t].state = "REVOKED"]_vars

\* C17: once the status of a task is SUCCESS, FAILURE or REVOKED, its stored
\* state is not modified again, by an executor or by a cancel request, until
\* it is evicted.
C17_TerminalIsImmutable ==
    [][\A t \in Tasks :
        backend[t].state \in Terminal
          => backend'[t] = backend[t] \/ Evicted(t)]_vars

\* The calls process_job_pipeline itself made, in the order it made them.
PipelineCalls(t) ==
    SelectSeq(calls[t], LAMBDA n : \E i \in DOMAIN PipelineCallOrder : PipelineCallOrder[i] = n)

RECURSIVE IsSubsequence(_, _)
IsSubsequence(s, o) ==
    IF s = <<>> THEN TRUE
    ELSE IF o = <<>> THEN FALSE
    ELSE IF Head(s) = Head(o) THEN IsSubsequence(Tail(s), Tail(o))
    ELSE IsSubsequence(s, Tail(o))

\* C21: within one task the collaborators are called one at a time in the order
\* duplicate check, extraction, evaluation, resume tailoring, render, upload,
\* cover-letter tailoring, render, upload, persistence: the calls made so far
\* follow that order, extraction starts only after the duplicate check has
\* answered, evaluation only after extraction has returned its record, and a
\* persistence call is the last call.
C21_CallsInFixedOrder ==
    \A t \in Tasks :
        LET made == PipelineCalls(t)
        IN  /\ IsSubsequence(made, PipelineCallOrder)
            /\ made # <<>> => made[1] = "check_if_job_exists"
            /\ WasCalled(t, "extract_job_data")
                 => /\ hist[t].lookup # NoneV
                    /\ made[2] = "extract_job_data"
            /\ WasCalled(t, "evaluate_job_match")
                 => /\ normalized[t] # NoRec
                    /\ pc[t] \notin {"in_extracting", "scrape", "normalize"}
                    /\ made[3] = "evaluate_job_match"
            /\ \A i \in DOMAIN made : made[i] = "save_job_to_notion" => i = Len(made)

\* A task that went through duplicate check, slow-path extraction and evaluation.
C21_Witness ==
    \E t \in Tasks :
        /\ Finished(t)
        /\ WasCalled(t, "llm_normalize_job_data")
        /\ PipelineCalls(t) = <<"check_if_job_exists", "extract_job_data", "evaluate_job_match">>

\* The failures of the fast path that the coordinator's documentation lists as
\* triggering the fallback: timeouts, network and connection errors, parsing
\* failures, missing or empty content.
ListedRecoverable(cause) ==
    \/ cause.cls \in {"TimeoutError", "ConnectionError", "JSONDecodeError"}
    \/ \E p \in { <<"timeout">>, <<"no", "content", "extracted">>, <<"empty">>,
                  <<"missing", "required", "fields">> } : Contains(Lower(cause.msg), p)

\* C22: a fast-path failure that is not a business outcome triggers the
\* fallback exactly when it is of a listed recoverable kind (timeout, network
\* or connection error, parsing failure, missing or empty content).
C22_ListedKindsFallBack ==
    \A t \in Tasks :
        (FastRaised(t) /\ ~IsBusinessOutcome(hist[t].fast))
          => (WasCalled(t, "_playwright_path") <=> ListedRecoverable(hist[t].cause))

C25_RestrictedNeverReturned ==
    \A t \in Tasks :
        normalized[t] # NoRec => normalized[t].visa_feasibility # "restricted"

\* C29: with force_playwright true the fast path is never run and
\* _playwright_path is entered exactly once; the record it returns carries the
\* method "playwright+llm", and what it raises (the unavailable outcome, or a
\* wrapped technical error) leaves extract_job_data as it is, with no second
\* extraction.
C29_ForcedRunsSlowPathOnce ==
    \A t \in Tasks :
        req[t].force_playwright =>
            /\ Count(t, "crawl4ai_extract") = 0
            /\ hist[t].fast = NoExc
            /\ Count(t, "extract_job_data") <= 1
            /\ Count(t, "_playwright_path") = Count(t, "extract_job_data")
            /\ Count(t, "playwright_scrape_job") = Count(t, "extract_job_data")
            /\ normalized[t] # NoRec
                 => /\ normalized[t].extraction_method = "playwright+llm"
                    /\ Count(t, "llm_normalize_job_data") = 1
                    /\ hist[t].extract = NoExc
            /\ hist[t].scrape # NoExc
                 => /\ normalized[t] = NoRec
                    /\ hist[t].extract = PlaywrightPathError(hist[t].scrape)
                    /\ pc[t] \in {"done", "expired"}
                    /\ Finished(t) =>
                         IF ScrapeFoundUnavailable(t)
                             THEN backend[t].result.status = "unavailable"
                         ELSE /\ backend[t].state = "FAILURE"
                              /\ backend[t].error = hist[t].extract

\* A forced task whose scraper gave up after its attempts.
C29_Witness ==
    \E t \in Tasks :
        /\ req[t].force_playwright
        /\ hist[t].scrape.cls = "Exception"
        /\ attempt[t] = max_retries - 1
        /\ Finished(t)
        /\ backend[t].state = "FAILURE"

\* The record has a download reference (a file block) under the given heading.
HasDownload(content) ==
    \E i \in DOMAIN notion.content_blocks :
        /\ notion.content_blocks[i].type = "file"
        /\ notion.content_blocks[i].content = content

\* C28: the blocks save_job_to_notion sends hold a resume download reference
\* exactly when resume data and the resume PDF URL are both present, a
\* cover-letter download reference exactly when cover-letter data and the
\* cover-letter PDF URL are both present, and no reference with an absent URL.
C28_DownloadReferences ==
    notion.pc \in {"create_page", "done"} =>
        /\ HasDownload("Download Tailored Resume")
             <=> (notion.args.resume_data # NoneV /\ notion.args.pdf_url # NoneV)
        /\ HasDownload("Download Tailored Cover Letter")
             <=> (notion.args.cover_letter_data # NoneV
                    /\ notion.args.cover_letter_pdf_url # NoneV)
        /\ \A i \in DOMAIN notion.content_blocks :
              notion.content_blocks[i].type = "file" => notion.content_blocks[i].url # NoneV

ExtractionBounded(t) ==
    /\ Count(t, "extract_job_data") <= 1
    /\ Count(t, "crawl4ai_extract") <= 1
    /\ Count(t, "_playwright_path") <= 1
    /\ Count(t, "playwright_scrape_job") <= 1
    /\ attempt[t] <= max_retries - 1
    /\ last_error[t].cls # "playwright_scraper_service.JobUnavailableError"
    /\ ScrapeFoundUnavailable(t) => pc[t] \notin {"scrape", "normalize"}

\* C30: when every awaited call returns or raises, a task that was picked up
\* eventually is stored SUCCESS or FAILURE; on the way the fallback is taken at
\* most once, the scraper makes at most 3 navigation attempts and none after
\* it found the posting unavailable.
C30_PickedUpTaskTerminates ==
    /\ [](\A t \in Tasks : ExtractionBounded(t))
    /\ \A t \in Tasks :
          (pc[t] = "picked")
            ~> (Finished(t) /\ backend[t].state \in {"SUCCESS", "FAILURE"})

\* A task that fell back, used the scraper's last attempt and was then stored.
C30_Witness ==
    \E t \in Tasks :
        /\ FastRaised(t)
        /\ attempt[t] = max_retries - 1
        /\ WasCalled(t, "llm_normalize_job_data")
        /\ Finished(t)
        /\ backend[t].state = "FAILURE"
====
